---- MODULE Spec2Model ----
(***************************************************************************)
(* Model of backend/services/voice_service.py: the streaming speech        *)
(* recognition client (frame codec, audio splitting, the send/receive      *)
(* session and transcript aggregation of recognize_audio).                 *)
(*                                                                         *)
(* asyncio is single threaded: the main coroutine and the sender task      *)
(* interleave only at their suspension points, so every action below is    *)
(* the code that runs between two suspension points.                       *)
(***************************************************************************)
EXTENDS Integers, Sequences, FiniteSets, TLC

\* ------------------------------------------------------------------ bounds
MaxLen == 3        \* longest audio buffer, in bytes
MaxSegSize == 2    \* largest segment size, in bytes
MaxMsgs == 3       \* most messages the server sends in one call

MaxResp == 2       \* most responses handed to the aggregation on its own
MaxShort == 3      \* longest arbitrary byte string handed to the decoder
MaxData == 12      \* longest buffer handed to split_audio on its own
MaxSplit == 5      \* largest segment size handed to split_audio on its own

\* ------------------------------------------------------- protocol constants
V1 == 1
CLIENT_FULL_REQUEST == 1
CLIENT_AUDIO_ONLY_REQUEST == 2
SERVER_FULL_RESPONSE == 9
SERVER_ERROR_RESPONSE == 15
NO_SEQUENCE == 0
POS_SEQUENCE == 1
NEG_SEQUENCE == 2
NEG_WITH_SEQUENCE == 3
NO_SERIALIZATION == 0
JSON == 1
GZIP == 1

\* ------------------------------------------------------------ bit operators
RECURSIVE BitAnd(_, _)
BitAnd(a, b) ==
    IF a = 0 \/ b = 0 THEN 0
    ELSE (IF a % 2 = 1 /\ b % 2 = 1 THEN 1 ELSE 0) + 2 * BitAnd(a \div 2, b \div 2)

RECURSIVE BitOr(_, _)
BitOr(a, b) ==
    IF a = 0 THEN b
    ELSE IF b = 0 THEN a
    ELSE (IF a % 2 = 1 \/ b % 2 = 1 THEN 1 ELSE 0) + 2 * BitOr(a \div 2, b \div 2)

\* ------------------------------------------------------------- JSON values
JNone == [t |-> "none"]
JInt(n) == [t |-> "int", v |-> n]
JStr(s) == [t |-> "str", v |-> s]
JList(l) == [t |-> "list", v |-> l]
JDict(d) == [t |-> "dict", v |-> d]

\* Python truthiness of a decoded JSON value (if response.payload_msg:)
Truthy(j) ==
    CASE j.t = "none" -> FALSE
      [] j.t = "int"  -> j.v # 0
      [] j.t = "str"  -> j.v # ""
      [] j.t = "list" -> Len(j.v) > 0
      [] j.t = "dict" -> DOMAIN j.v # {}

\* gzip is kept opaque: a compressed value wraps the bytes it was made from
gzip_compress(data) == [gz |-> data]

\* ---------------------------------------------------------- request frames
default_header ==
    [message_type |-> CLIENT_FULL_REQUEST,
     message_type_specific_flags |-> POS_SEQUENCE,
     serialization_type |-> JSON,
     compression_type |-> GZIP,
     reserved_data |-> 0]

to_bytes_Swapped(h) ==
    << BitOr(V1 * 16, 1),
       BitOr(h.message_type_specific_flags * 16, h.message_type),
       BitOr(h.serialization_type * 16, h.compression_type),
       h.reserved_data >>

to_bytes(h) ==
    << BitOr(V1 * 16, 1),
       BitOr(h.message_type * 16, h.message_type_specific_flags),
       BitOr(h.serialization_type * 16, h.compression_type),
       h.reserved_data >>

new_full_client_request(s) ==
    [header  |-> to_bytes([default_header EXCEPT !.message_type_specific_flags = POS_SEQUENCE]),
     seq     |-> s,
     payload |-> gzip_compress("config")]

new_audio_only_request_NoNegate(s, segment, is_last) ==
    [header  |-> to_bytes([default_header EXCEPT
                    !.message_type_specific_flags =
                        IF is_last THEN NEG_WITH_SEQUENCE ELSE POS_SEQUENCE,
                    !.message_type = CLIENT_AUDIO_ONLY_REQUEST]),
     seq     |-> s,
     payload |-> gzip_compress(segment)]

new_audio_only_request(s, segment, is_last) ==
    [header  |-> to_bytes([default_header EXCEPT
                    !.message_type_specific_flags =
                        IF is_last THEN NEG_WITH_SEQUENCE ELSE POS_SEQUENCE,
                    !.message_type = CLIENT_AUDIO_ONLY_REQUEST]),
     seq     |-> IF is_last THEN 0 - s ELSE s,
     payload |-> gzip_compress(segment)]

\* fields of an outbound frame, read back from its header bytes
FrameType(f) == f.header[2] \div 16
FrameFlags(f) == f.header[2] % 16
IsAudioFrame(f) == FrameType(f) = CLIENT_AUDIO_ONLY_REQUEST
IsLastFrame(f) == BitAnd(FrameFlags(f), 2) # 0

\* ------------------------------------------------------------ split_audio
RECURSIVE SplitFrom_Gap(_, _, _)
SplitFrom_Gap(data, segment_size, i) ==
    IF i > Len(data) THEN << >>
    ELSE LET end == IF i + segment_size - 1 > Len(data)
                    THEN Len(data) ELSE i + segment_size - 1
         IN << SubSeq(data, i, end) >> \o SplitFrom_Gap(data, segment_size, i + segment_size + 1)

RECURSIVE SplitFrom(_, _, _)
SplitFrom(data, segment_size, i) ==
    IF i > Len(data) THEN << >>
    ELSE LET end == IF i + segment_size - 1 > Len(data)
                    THEN Len(data) ELSE i + segment_size - 1
         IN << SubSeq(data, i, end) >> \o SplitFrom(data, segment_size, i + segment_size)

split_audio_DropRemainder(data, segment_size) ==
    IF segment_size <= 0 THEN << >>
    ELSE LET all == SplitFrom(data, segment_size, 1)
         IN  IF Len(all) > 0 /\ Len(all[Len(all)]) < segment_size
             THEN SubSeq(all, 1, Len(all) - 1) ELSE all

split_audio_ZeroAsOne(data, segment_size) ==
    IF segment_size <= 0 THEN SplitFrom(data, 1, 1) ELSE SplitFrom(data, segment_size, 1)

split_audio(data, segment_size) ==
    IF segment_size <= 0 THEN << >> ELSE SplitFrom(data, segment_size, 1)

\* ---------------------------------------------------------- response frames
\* An inbound binary frame: its four header bytes, the fields that follow
\* them and its body.  body.k is "empty" (no payload bytes), "badgzip"
\* (bytes gzip rejects), "badjson" (gzip of bytes json rejects) or "json"
\* (gzip of the JSON text of body.v).  trunc: the bytes end before a field
\* the header announces.
ServerFrame(mt, flags, s, c, body) ==
    [header |-> << BitOr(V1 * 16, 1), BitOr(mt * 16, flags), BitOr(JSON * 16, GZIP), 0 >>,
     seq |-> s, event |-> 0, code |-> c, body |-> body, trunc |-> FALSE]

Body(k, v) == [k |-> k, v |-> v]

AsrResponse ==
    [code |-> 0, event |-> 0, is_last_package |-> FALSE,
     payload_sequence |-> 0, payload_msg |-> JNone, fault |-> FALSE]

parse_response_DropPayload(msg) ==
    LET message_type == msg.header[2] \div 16
        flags == BitAnd(msg.header[2], 15)
    IN  [AsrResponse EXCEPT
            !.fault = msg.trunc,
            !.payload_sequence = IF BitAnd(flags, 1) # 0 THEN msg.seq ELSE 0,
            !.is_last_package = BitAnd(flags, 2) # 0,
            !.code = IF message_type = SERVER_ERROR_RESPONSE THEN msg.code ELSE 0]

parse_response_GzipFatal(msg) ==
    LET message_type == msg.header[2] \div 16
        flags == BitAnd(msg.header[2], 15)
    IN  [AsrResponse EXCEPT
            !.fault = msg.trunc \/ msg.body.k = "badgzip",
            !.payload_sequence = IF BitAnd(flags, 1) # 0 THEN msg.seq ELSE 0,
            !.is_last_package = BitAnd(flags, 2) # 0,
            !.code = IF message_type = SERVER_ERROR_RESPONSE THEN msg.code ELSE 0,
            !.payload_msg = IF msg.body.k = "json" THEN msg.body.v ELSE JNone]

\* fault: struct.unpack or the index raised (the frame is truncated)
parse_response(msg) ==
    LET message_type == msg.header[2] \div 16
        message_type_specific_flags == BitAnd(msg.header[2], 15)
        serialization_method == msg.header[3] \div 16
        message_compression == BitAnd(msg.header[3], 15)
    IN  IF msg.trunc THEN [AsrResponse EXCEPT !.fault = TRUE]
        ELSE [AsrResponse EXCEPT
            !.payload_sequence =
                IF BitAnd(message_type_specific_flags, 1) # 0 THEN msg.seq ELSE 0,
            !.is_last_package = BitAnd(message_type_specific_flags, 2) # 0,
            !.event =
                IF BitAnd(message_type_specific_flags, 4) # 0 THEN msg.event ELSE 0,
            !.code =
                IF message_type = SERVER_ERROR_RESPONSE THEN msg.code ELSE 0,
            !.payload_msg =
                IF /\ msg.body.k = "json"
                   /\ message_compression = GZIP
                   /\ serialization_method = JSON
                THEN msg.body.v ELSE JNone]

\* ------------------------------------------------- transcript aggregation
\* strings of the model are atoms: one contains another only when equal
StrContains(s, sub) == s = sub

\* Python's  key in x ; fault: x is not a container (TypeError)
InOp(key, x) ==
    CASE x.t = "dict" -> [val |-> key \in DOMAIN x.v, fault |-> FALSE]
      [] x.t = "list" -> [val |-> \E i \in 1..Len(x.v) : x.v[i].t = "str" /\ x.v[i].v = key, fault |-> FALSE]
      [] x.t = "str"  -> [val |-> StrContains(x.v, key), fault |-> FALSE]
      [] OTHER        -> [val |-> FALSE, fault |-> TRUE]

\* the for loop over a list result: every item with a text overwrites
RECURSIVE AggList(_, _, _)
AggList(full_text, items, i) ==
    IF i > Len(items) THEN full_text
    ELSE LET res == items[i]
         IN  IF res.t = "dict" /\ "text" \in DOMAIN res.v
             THEN AggList(res.v["text"], items, i + 1)
             ELSE IF res.t = "str" THEN AggList(res, items, i + 1)
             ELSE AggList(full_text, items, i + 1)

Keep(full_text) == [full_text |-> full_text, fault |-> FALSE]
Raise(full_text) == [full_text |-> full_text, fault |-> TRUE]

AggDict(full_text, result_data) ==
    IF "text" \in DOMAIN result_data.v THEN Keep(result_data.v["text"])
    ELSE IF "utterances" \in DOMAIN result_data.v
    THEN LET utterances == result_data.v["utterances"]
         IN  IF utterances.t = "list" /\ Len(utterances.v) > 0
             THEN LET has == InOp("text", utterances.v[1])
                  IN  IF has.fault THEN Raise(full_text)
                      ELSE IF ~has.val THEN Keep(full_text)
                      ELSE IF utterances.v[1].t = "dict"
                      THEN Keep(utterances.v[1].v["text"])
                      ELSE Raise(full_text)
             ELSE Keep(full_text)
    ELSE Keep(full_text)

Aggregate_FirstWins(full_text, payload_msg) ==
    IF payload_msg.t = "dict" /\ "result" \in DOMAIN payload_msg.v
       /\ payload_msg.v["result"].t = "dict"
       /\ "text" \in DOMAIN payload_msg.v["result"].v
       /\ full_text.v = ""
    THEN Keep(payload_msg.v["result"].v["text"])
    ELSE Keep(full_text)

\* the body of the loop of recognize_audio; fault: it raised TypeError
Aggregate(full_text, payload_msg) ==
    IF ~Truthy(payload_msg) THEN Keep(full_text)
    ELSE LET has == InOp("result", payload_msg)
         IN  IF has.fault THEN Raise(full_text)
             ELSE IF ~has.val THEN Keep(full_text)
             ELSE IF payload_msg.t # "dict" THEN Raise(full_text)
             ELSE LET result_data == payload_msg.v["result"]
                  IN  IF result_data.t = "list"
                      THEN Keep(AggList(full_text, result_data.v, 1))
                      ELSE IF result_data.t = "dict"
                      THEN AggDict(full_text, result_data)
                      ELSE Keep(full_text)

\* ---------------------------------------------------- audio preprocessing
DEFAULT_SAMPLE_RATE == 16000

\* An audio file: its length in bytes, whether bytes 0..3 are "RIFF" and
\* bytes 8..11 are "WAVE", the fmt fields at their fixed offsets, and the
\* subchunks laid out from offset 36 on (the id and the size of each).
AudioFile(length, riff, wave, ch, bits, rate, subchunks) ==
    [length |-> length, riff |-> riff, wave |-> wave, num_channels |-> ch,
     bits_per_sample |-> bits, sample_rate |-> rate, subchunks |-> subchunks]

judge_wav(data) ==
    IF data.length < 44 THEN FALSE ELSE data.riff /\ data.wave

\* the while loop of read_wav_info from subchunk i, which starts at pos:
\* 0 when no data subchunk is found, else its index
RECURSIVE FindData(_, _, _)
FindData(data, i, pos) ==
    IF ~(pos < data.length - 8) \/ i > Len(data.subchunks) THEN 0
    ELSE IF data.subchunks[i].id = "data" THEN i
    ELSE FindData(data, i + 1, pos + 8 + data.subchunks[i].size)

\* fault: ValueError, or ZeroDivisionError in the frame count
read_wav_info(data) ==
    LET found == FindData(data, 1, 36)
        width == data.bits_per_sample \div 8
        info(bad) == [fault |-> bad, num_channels |-> data.num_channels,
                      samp_width |-> width, sample_rate |-> data.sample_rate]
    IN  IF data.length < 44 \/ ~data.riff \/ ~data.wave THEN info(TRUE)
        ELSE IF found = 0 THEN info(TRUE)
        ELSE IF data.num_channels * width = 0 THEN info(TRUE)
        ELSE info(FALSE)

\* one run of the external transcoder: its exit code, what it wrote to
\* standard output and to standard error
TranscoderRun(rc, out, err) == [returncode |-> rc, stdout |-> out, stderr |-> err]

\* fault: RuntimeError(f"Audio conversion failed (exit code ..): ..")
convert_wav_with_path(run) ==
    IF run.returncode = 0
    THEN [fault |-> FALSE, content |-> run.stdout, returncode |-> 0, stderr_msg |-> ""]
    ELSE [fault |-> TRUE, content |-> << >>, returncode |-> run.returncode,
          stderr_msg |-> IF run.stderr # "" THEN run.stderr ELSE "No error message"]

Unconverted(file) ==
    [fault |-> FALSE, content |-> << "file", file >>, invoked |-> FALSE,
     returncode |-> 0, stderr_msg |-> ""]

Converted(run) ==
    LET c == convert_wav_with_path(run)
    IN  [fault |-> c.fault, content |-> c.content, invoked |-> TRUE,
         returncode |-> c.returncode, stderr_msg |-> c.stderr_msg]

read_audio_data_AlwaysConvert(file, run) == Converted(run)

\* read_audio_data for a file, given what the transcoder would do if run;
\* invoked: the transcoder was run
read_audio_data(file, run) ==
    IF judge_wav(file)
    THEN LET info == read_wav_info(file)
         IN  IF ~info.fault /\ info.num_channels = 1 /\ info.samp_width = 2
                /\ info.sample_rate = DEFAULT_SAMPLE_RATE
             THEN Unconverted(file)
             ELSE Converted(run)
    ELSE Converted(run)

\* the files and the transcoder runs of the model
Layouts ==
    << [length |-> 20, subchunks |-> << >>],
       [length |-> 46, subchunks |-> << [id |-> "data", size |-> 2] >>],
       [length |-> 46, subchunks |-> << [id |-> "LIST", size |-> 2] >>],
       [length |-> 44, subchunks |-> << [id |-> "data", size |-> 0] >>],
       [length |-> 56, subchunks |-> << [id |-> "LIST", size |-> 2],
                                        [id |-> "data", size |-> 2] >>] >>

AudioFiles ==
    { AudioFile(Layouts[l].length, riff, wave, ch, bits, rate, Layouts[l].subchunks) :
        l \in 1..Len(Layouts), riff \in BOOLEAN, wave \in BOOLEAN,
        ch \in 0..2, bits \in {7, 8, 16, 17}, rate \in {8000, 16000} }

TranscoderRuns ==
    { TranscoderRun(rc, << "pcm" >>, err) : rc \in {0, 1}, err \in {"", "no such codec"} }


\* ------------------------------------------------------------ the session
VARIABLES
    pc,           \* position of the coroutine running recognize_audio
    exc,          \* the exception propagating out of the call, or "none"
    seq,          \* AsrWsClient.seq
    conn,         \* AsrWsClient.conn: "none", "open" or "closed"
    session,      \* AsrWsClient.session: "none", "open" or "closed"
    content,      \* the bytes read_audio_data returns for the file
    segment_size, \* the value get_segment_size computes for them
    transport,    \* the socket as the peer left it: "open", "closed", "error"
    srvLog,       \* every message the server has sent, in order
    consumed,     \* how many of them conn.receive() has handed out
    sent,         \* every frame the client has written, in order
    sender,       \* sender_task: "none", "created", "sleeping", "done",
                  \*              "cancelled" or "failed"
    idx,          \* how many segments send_messages has sent
    cancelReq,    \* sender_task.cancel() was called on a pending task
    yielded,      \* the responses handed to the loop of recognize_audio
    full_text,    \* the running transcript
    abandoned,    \* the generators were left suspended at their yield
    callCancelled,\* the task running recognize_audio was cancelled
    excMsg,       \* what the RuntimeError of a failed conversion carries
    fn_in,        \* the argument of the function under study
    fn_out        \* its result, once applied

svars == << pc, exc, seq, conn, session, content, segment_size, transport,
            srvLog, consumed, sent, sender, idx, cancelReq, yielded,
            full_text, abandoned, callCancelled, excMsg >>

vars == << svars, fn_in, fn_out >>

NoMsg == [returncode |-> 0, stderr_msg |-> ""]
Pending == [done |-> FALSE]
Result(v) == [done |-> TRUE, val |-> v]

Terminated == {"done", "cancelled", "failed"}

\* the messages a server may send
Binary(f) == [type |-> "BINARY", data |-> f]
TextMsg == [type |-> "TEXT", data |-> ServerFrame(0, 0, 0, 0, Body("empty", JNone))]
AckFrame == Binary(ServerFrame(SERVER_FULL_RESPONSE, POS_SEQUENCE, 1, 0, Body("empty", JNone)))
HelloFinal ==
    Binary(ServerFrame(SERVER_FULL_RESPONSE, NEG_WITH_SEQUENCE, 0 - 2, 0,
        Body("json", JDict([result |-> JDict([text |-> JStr("hello world")])]))))
Partial ==
    Binary(ServerFrame(SERVER_FULL_RESPONSE, POS_SEQUENCE, 2, 0,
        Body("json", JDict([result |-> JDict([utterances |->
            JList(<< JDict([text |-> JStr("partial")]) >>)])]))))
BadUtterance ==
    Binary(ServerFrame(SERVER_FULL_RESPONSE, POS_SEQUENCE, 2, 0,
        Body("json", JDict([result |-> JDict([utterances |-> JList(<< JInt(5) >>)])]))))
ErrorResp ==
    Binary(ServerFrame(SERVER_ERROR_RESPONSE, NO_SEQUENCE, 0, 45,
        Body("json", JDict([error |-> JStr("bad request")]))))
GarbledFinal ==
    Binary(ServerFrame(SERVER_FULL_RESPONSE, NEG_WITH_SEQUENCE, 0 - 2, 0,
        Body("badgzip", JNone)))
GarbledPartial ==
    Binary(ServerFrame(SERVER_FULL_RESPONSE, POS_SEQUENCE, 2, 0,
        Body("badjson", JNone)))
Truncated ==
    Binary([ServerFrame(SERVER_FULL_RESPONSE, POS_SEQUENCE, 0, 0, Body("empty", JNone))
                EXCEPT !.trunc = TRUE])

ServerMsgs ==
    << AckFrame, HelloFinal, Partial, BadUtterance, ErrorResp, GarbledFinal,
       GarbledPartial, Truncated, TextMsg >>

Bytes(n) == [i \in 1..n |-> i]

Init ==
    /\ pc = "aenter"
    /\ exc = "none"
    /\ seq = 1
    /\ conn = "none"
    /\ session = "none"
    /\ content \in {Bytes(n) : n \in 0..MaxLen}
    /\ segment_size \in 0..MaxSegSize
    /\ transport = "open"
    /\ srvLog = << >>
    /\ consumed = 0
    /\ sent = << >>
    /\ sender = "none"
    /\ idx = 0
    /\ cancelReq = FALSE
    /\ yielded = << >>
    /\ full_text = JStr("")
    /\ abandoned = FALSE
    /\ callCancelled = FALSE
    /\ excMsg = NoMsg
    /\ fn_in = << >>
    /\ fn_out = Pending

\* ------------------------------------------------------- the main coroutine
\* AsrWsClient.__aenter__
AEnter ==
    /\ pc = "aenter"
    /\ session' = "open"
    /\ pc' = "execute"
    /\ UNCHANGED << exc, seq, conn, content, segment_size, transport, srvLog,
                    consumed, sent, sender, idx, cancelReq, yielded, full_text,
                    abandoned, callCancelled >>
    /\ UNCHANGED << excMsg, fn_in, fn_out >>

\* execute up to create_connection: the counter is reset, the file is read
\* (the transcoder may fail) and the segment size is computed
Execute_IgnoresFailure ==
    /\ pc = "execute"
    /\ seq' = 1
    /\ \E file \in AudioFiles, run \in TranscoderRuns :
          LET r == read_audio_data(file, run)
          IN  /\ pc' = "connect"
              /\ exc' = exc
              /\ excMsg' = IF r.fault
                           THEN [returncode |-> r.returncode, stderr_msg |-> r.stderr_msg]
                           ELSE excMsg
    /\ UNCHANGED << conn, session, content, segment_size, transport, srvLog,
                    consumed, sent, sender, idx, cancelReq, yielded, full_text,
                    abandoned, callCancelled >>
    /\ UNCHANGED << fn_in, fn_out >>

Execute ==
    /\ pc = "execute"
    /\ seq' = 1
    /\ \E file \in AudioFiles, run \in TranscoderRuns :
          LET r == read_audio_data(file, run)
          IN  IF r.fault
              THEN /\ pc' = "aexit"
                   /\ exc' = "RuntimeError"
                   /\ excMsg' = [returncode |-> r.returncode, stderr_msg |-> r.stderr_msg]
              ELSE /\ pc' = "connect"
                   /\ exc' = exc
                   /\ excMsg' = excMsg
    /\ UNCHANGED << conn, session, content, segment_size, transport, srvLog,
                    consumed, sent, sender, idx, cancelReq, yielded, full_text,
                    abandoned, callCancelled >>
    /\ UNCHANGED << fn_in, fn_out >>

\* create_connection: ws_connect succeeds or raises
CreateConnection ==
    /\ pc = "connect"
    /\ \E connected \in BOOLEAN :
          IF connected THEN conn' = "open" /\ pc' = "config" /\ exc' = exc
          ELSE conn' = conn /\ pc' = "aexit" /\ exc' = "TransportError"
    /\ UNCHANGED << seq, session, content, segment_size, transport, srvLog,
                    consumed, sent, sender, idx, cancelReq, yielded, full_text,
                    abandoned, callCancelled >>
    /\ UNCHANGED << excMsg, fn_in, fn_out >>

\* conn.send_bytes: a write to a socket the peer has closed may still be
\* accepted or may raise; a write to a closed connection raises
MaySend == conn = "open"
MayFail == conn # "open" \/ transport # "open"

\* send_full_client_request, up to the await of conn.receive()
SendFullClientRequest ==
    /\ pc = "config"
    /\ seq' = seq + 1
    /\ \/ /\ MaySend
          /\ sent' = Append(sent, new_full_client_request(seq))
          /\ pc' = "ack"
          /\ exc' = exc
       \/ /\ MayFail
          /\ sent' = sent
          /\ pc' = "aexit"
          /\ exc' = "SendError"
    /\ UNCHANGED << conn, session, content, segment_size, transport, srvLog,
                    consumed, sender, idx, cancelReq, yielded, full_text,
                    abandoned, callCancelled >>
    /\ UNCHANGED << excMsg, fn_in, fn_out >>

\* conn.receive() has something to return: a queued message, or the closure
Readable == consumed < Len(srvLog) \/ transport # "open"
Closure ==
    [type |-> IF transport = "error" THEN "ERROR" ELSE "CLOSED",
     data |-> ServerFrame(0, 0, 0, 0, Body("empty", JNone))]
NextMsg == IF consumed < Len(srvLog) THEN srvLog[consumed + 1] ELSE Closure

\* the finally block of start_audio_stream, up to  await sender_task
Finally(e) ==
    /\ cancelReq' = (cancelReq \/ sender \notin Terminated)
    /\ pc' = "join"
    /\ exc' = e

ReceiveAck_Yields ==
    /\ pc = "ack"
    /\ Readable
    /\ consumed' = IF consumed < Len(srvLog) THEN consumed + 1 ELSE consumed
    /\ IF NextMsg.type = "BINARY" /\ parse_response(NextMsg.data).fault
       THEN pc' = "aexit" /\ exc' = "DecodeError" /\ sender' = sender
       ELSE pc' = "recv" /\ exc' = exc /\ sender' = "created"
    /\ yielded' = IF NextMsg.type = "BINARY" /\ ~parse_response(NextMsg.data).fault
                  THEN Append(yielded, parse_response(NextMsg.data)) ELSE yielded
    /\ UNCHANGED << seq, conn, session, content, segment_size, transport, srvLog,
                    sent, idx, cancelReq, full_text, abandoned, callCancelled >>
    /\ UNCHANGED << excMsg, fn_in, fn_out >>

ReceiveAck_ChecksReply ==
    /\ pc = "ack"
    /\ Readable
    /\ consumed' = IF consumed < Len(srvLog) THEN consumed + 1 ELSE consumed
    /\ IF NextMsg.type = "BINARY" /\ parse_response(NextMsg.data).fault
       THEN pc' = "aexit" /\ exc' = "DecodeError" /\ sender' = sender
       ELSE IF NextMsg.type = "BINARY" /\ parse_response(NextMsg.data).code # 0
       THEN pc' = "aexit" /\ exc' = "ProtocolError" /\ sender' = sender
       ELSE pc' = "recv" /\ exc' = exc /\ sender' = "created"
    /\ UNCHANGED << seq, conn, session, content, segment_size, transport, srvLog,
                    sent, idx, cancelReq, yielded, full_text, abandoned,
                    callCancelled >>
    /\ UNCHANGED << excMsg, fn_in, fn_out >>

\* send_full_client_request from conn.receive() on, then execute up to the
\* first receive of recv_messages (start_audio_stream creates the sender task)
ReceiveAck ==
    /\ pc = "ack"
    /\ Readable
    /\ consumed' = IF consumed < Len(srvLog) THEN consumed + 1 ELSE consumed
    /\ IF NextMsg.type = "BINARY" /\ parse_response(NextMsg.data).fault
       THEN pc' = "aexit" /\ exc' = "DecodeError" /\ sender' = sender
       ELSE pc' = "recv" /\ exc' = exc /\ sender' = "created"
    /\ UNCHANGED << seq, conn, session, content, segment_size, transport, srvLog,
                    sent, idx, cancelReq, yielded, full_text, abandoned,
                    callCancelled >>
    /\ UNCHANGED << excMsg, fn_in, fn_out >>

Terminal_LastOnly(response) == response.is_last_package

Terminal(response) == response.is_last_package \/ response.code # 0

RecvMessages_Timeout ==
    /\ pc = "recv"
    /\ IF Readable
       THEN consumed' = (IF consumed < Len(srvLog) THEN consumed + 1 ELSE consumed)
       ELSE consumed' = consumed
    /\ Finally(IF Readable THEN exc ELSE "TimeoutError")
    /\ UNCHANGED << yielded, full_text, abandoned >>
    /\ UNCHANGED << seq, conn, session, content, segment_size, transport, srvLog,
                    sent, sender, idx, callCancelled >>
    /\ UNCHANGED << excMsg, fn_in, fn_out >>

\* one turn of recv_messages, the yield through start_audio_stream and
\* execute, and the body of the loop of recognize_audio
RecvMessages ==
    /\ pc = "recv"
    /\ Readable
    /\ consumed' = IF consumed < Len(srvLog) THEN consumed + 1 ELSE consumed
    /\ LET msg == NextMsg
           response == parse_response(msg.data)
           agg == Aggregate(full_text, response.payload_msg)
       IN  IF msg.type = "BINARY"
           THEN IF response.fault
                THEN /\ Finally("DecodeError")
                     /\ UNCHANGED << yielded, full_text, abandoned >>
                ELSE /\ yielded' = Append(yielded, response)
                     /\ full_text' = agg.full_text
                     /\ IF agg.fault
                        THEN /\ abandoned' = TRUE
                             /\ pc' = "aexit"
                             /\ exc' = "TypeError"
                             /\ cancelReq' = cancelReq
                        ELSE /\ abandoned' = abandoned
                             /\ IF Terminal(response)
                                THEN Finally(exc)
                                ELSE UNCHANGED << pc, exc, cancelReq >>
           ELSE /\ IF msg.type \in {"ERROR", "CLOSED"}
                   THEN Finally(exc)
                   ELSE UNCHANGED << pc, exc, cancelReq >>
                /\ UNCHANGED << yielded, full_text, abandoned >>
    /\ UNCHANGED << seq, conn, session, content, segment_size, transport, srvLog,
                    sent, sender, idx, callCancelled >>
    /\ UNCHANGED << excMsg, fn_in, fn_out >>

Join_SwallowsAll ==
    /\ pc = "join"
    /\ sender \in Terminated
    /\ exc' = exc
    /\ pc' = "aexit"
    /\ UNCHANGED << seq, conn, session, content, segment_size, transport, srvLog,
                    consumed, sent, sender, idx, cancelReq, yielded, full_text,
                    abandoned, callCancelled >>
    /\ UNCHANGED << excMsg, fn_in, fn_out >>

\* await sender_task returns or raises: CancelledError is swallowed, any
\* other exception of the sender replaces the one propagating
Join ==
    /\ pc = "join"
    /\ sender \in Terminated
    /\ exc' = IF sender = "failed" THEN "SendError" ELSE exc
    /\ pc' = "aexit"
    /\ UNCHANGED << seq, conn, session, content, segment_size, transport, srvLog,
                    consumed, sent, sender, idx, cancelReq, yielded, full_text,
                    abandoned, callCancelled >>
    /\ UNCHANGED << excMsg, fn_in, fn_out >>

AExit_OnlyOnSuccess ==
    /\ pc = "aexit"
    /\ conn' = IF conn = "open" /\ exc = "none" THEN "closed" ELSE conn
    /\ session' = IF session = "open" /\ exc = "none" THEN "closed" ELSE session
    /\ pc' = "done"
    /\ UNCHANGED << exc, seq, content, segment_size, transport, srvLog,
                    consumed, sent, sender, idx, cancelReq, yielded, full_text,
                    abandoned, callCancelled >>
    /\ UNCHANGED << excMsg, fn_in, fn_out >>

\* AsrWsClient.__aexit__, then recognize_audio returns full_text or raises
AExit ==
    /\ pc = "aexit"
    /\ conn' = IF conn = "open" THEN "closed" ELSE conn
    /\ session' = IF session = "open" THEN "closed" ELSE session
    /\ pc' = "done"
    /\ UNCHANGED << exc, seq, content, segment_size, transport, srvLog,
                    consumed, sent, sender, idx, cancelReq, yielded, full_text,
                    abandoned, callCancelled >>
    /\ UNCHANGED << excMsg, fn_in, fn_out >>

\* ---------------------------------------------------------- the sender task
SendSegment_Reversed(i) ==
    LET audio_segments == split_audio(content, segment_size)
        total_segments == Len(audio_segments)
        is_last == (i = total_segments)
        request == new_audio_only_request(seq, audio_segments[total_segments + 1 - i], is_last)
    IN  \/ /\ MaySend
           /\ sent' = Append(sent, request)
           /\ seq' = IF ~is_last THEN seq + 1 ELSE seq
           /\ idx' = i
           /\ sender' = "sleeping"
        \/ /\ MayFail
           /\ sender' = "failed"
           /\ UNCHANGED << sent, seq, idx >>

SendSegment_NoIncrement(i) ==
    LET audio_segments == split_audio(content, segment_size)
        total_segments == Len(audio_segments)
        is_last == (i = total_segments)
        request == new_audio_only_request(seq, audio_segments[i], is_last)
    IN  \/ /\ MaySend
           /\ sent' = Append(sent, request)
           /\ seq' = seq
           /\ idx' = i
           /\ sender' = "sleeping"
        \/ /\ MayFail
           /\ sender' = "failed"
           /\ UNCHANGED << sent, seq, idx >>

SendSegment_AlwaysLast(i) ==
    LET audio_segments == split_audio(content, segment_size)
        total_segments == Len(audio_segments)
        is_last == TRUE
        request == new_audio_only_request(seq, audio_segments[i], is_last)
    IN  \/ /\ MaySend
           /\ sent' = Append(sent, request)
           /\ seq' = IF i # total_segments THEN seq + 1 ELSE seq
           /\ idx' = i
           /\ sender' = "sleeping"
        \/ /\ MayFail
           /\ sender' = "failed"
           /\ UNCHANGED << sent, seq, idx >>

\* one turn of the loop of send_messages for segment i (counted from 1), up
\* to its asyncio.sleep
SendSegment(i) ==
    LET audio_segments == split_audio(content, segment_size)
        total_segments == Len(audio_segments)
        is_last == (i = total_segments)
        request == new_audio_only_request(seq, audio_segments[i], is_last)
    IN  \/ /\ MaySend
           /\ sent' = Append(sent, request)
           /\ seq' = IF ~is_last THEN seq + 1 ELSE seq
           /\ idx' = i
           /\ sender' = "sleeping"
        \/ /\ MayFail
           /\ sender' = "failed"
           /\ UNCHANGED << sent, seq, idx >>

\* the task's first step: split_audio and the first turn of the loop
SenderStart ==
    /\ sender = "created"
    /\ ~cancelReq
    /\ IF Len(split_audio(content, segment_size)) = 0
       THEN sender' = "done" /\ UNCHANGED << sent, seq, idx >>
       ELSE SendSegment(1)
    /\ UNCHANGED << pc, exc, conn, session, content, segment_size, transport,
                    srvLog, consumed, cancelReq, yielded, full_text, abandoned,
                    callCancelled >>
    /\ UNCHANGED << excMsg, fn_in, fn_out >>

\* the sleep is over: the next turn of the loop, or its end
SenderResume ==
    /\ sender = "sleeping"
    /\ ~cancelReq
    /\ IF idx = Len(split_audio(content, segment_size))
       THEN sender' = "done" /\ UNCHANGED << sent, seq, idx >>
       ELSE SendSegment(idx + 1)
    /\ UNCHANGED << pc, exc, conn, session, content, segment_size, transport,
                    srvLog, consumed, cancelReq, yielded, full_text, abandoned,
                    callCancelled >>
    /\ UNCHANGED << excMsg, fn_in, fn_out >>

\* CancelledError is thrown into the task where it is suspended
SenderCancelled ==
    /\ sender \in {"created", "sleeping"}
    /\ cancelReq
    /\ sender' = "cancelled"
    /\ UNCHANGED << pc, exc, seq, conn, session, content, segment_size,
                    transport, srvLog, consumed, sent, idx, cancelReq, yielded,
                    full_text, abandoned, callCancelled >>
    /\ UNCHANGED << excMsg, fn_in, fn_out >>

\* ---------------------------------------------------------- the environment
\* the server sends a message once it has the config request
ServerSend ==
    /\ transport = "open"
    /\ conn = "open"
    /\ Len(sent) >= 1
    /\ Len(srvLog) < MaxMsgs
    /\ \E k \in 1..Len(ServerMsgs) : srvLog' = Append(srvLog, ServerMsgs[k])
    /\ UNCHANGED << pc, exc, seq, conn, session, content, segment_size,
                    transport, consumed, sent, sender, idx, cancelReq, yielded,
                    full_text, abandoned, callCancelled >>
    /\ UNCHANGED << excMsg, fn_in, fn_out >>

\* the server closes the socket, or the socket breaks
ServerClose ==
    /\ transport = "open"
    /\ conn = "open"
    /\ transport' \in {"closed", "error"}
    /\ UNCHANGED << pc, exc, seq, conn, session, content, segment_size,
                    srvLog, consumed, sent, sender, idx, cancelReq, yielded,
                    full_text, abandoned, callCancelled >>
    /\ UNCHANGED << excMsg, fn_in, fn_out >>

\* the task running recognize_audio is cancelled while it is suspended.
\* In  await sender_task  the CancelledError is the one the except clause
\* swallows; elsewhere it propagates, through the finally block if the
\* receive loop was running.
CancelCall ==
    /\ ~callCancelled
    /\ pc \in {"connect", "ack", "recv", "join"}
    /\ callCancelled' = TRUE
    /\ IF pc = "join" THEN UNCHANGED << pc, exc, cancelReq >>
       ELSE IF pc = "recv" THEN Finally("CancelledError")
       ELSE pc' = "aexit" /\ exc' = "CancelledError" /\ cancelReq' = cancelReq
    /\ UNCHANGED << seq, conn, session, content, segment_size, transport,
                    srvLog, consumed, sent, sender, idx, yielded, full_text,
                    abandoned >>
    /\ UNCHANGED << excMsg, fn_in, fn_out >>

\* the abandoned generators are finalized after the call: aclose() runs the
\* finally block of start_audio_stream
Finalize ==
    /\ pc = "done"
    /\ abandoned
    /\ sender \notin Terminated
    /\ ~cancelReq
    /\ cancelReq' = TRUE
    /\ UNCHANGED << pc, exc, seq, conn, session, content, segment_size,
                    transport, srvLog, consumed, sent, sender, idx, yielded,
                    full_text, abandoned, callCancelled >>
    /\ UNCHANGED << excMsg, fn_in, fn_out >>

Next ==
    \/ AEnter
    \/ Execute
    \/ CreateConnection
    \/ SendFullClientRequest
    \/ ReceiveAck
    \/ RecvMessages
    \/ Join
    \/ AExit
    \/ SenderStart
    \/ SenderResume
    \/ SenderCancelled
    \/ ServerSend
    \/ ServerClose
    \/ CancelCall
    \/ Finalize

Spec == Init /\ [][Next]_vars

\* the outcome of the call
Returned == pc = "done" /\ exc = "none"
Raised == pc = "done" /\ exc # "none"

TypeOK ==
    /\ pc \in {"aenter", "execute", "connect", "config", "ack", "recv", "join", "aexit", "done"}
    /\ seq \in 1..(MaxLen + 2)
    /\ sender \in {"none", "created", "sleeping"} \cup Terminated

\* ================================================================== claims
HelloWorld == JStr("hello world")
WellFormed(m) == ~(m.type = "BINARY" /\ parse_response(m.data).fault)

\* C1 (as stated): when the server answers the config request with exactly
\* one full-response frame, last-package flag set and payload
\* {"result": {"text": "hello world"}}, a call that returns returns
\* "hello world".
C1_SingleReplyReturned ==
    (Returned /\ srvLog = << HelloFinal >>) => full_text = HelloWorld

\* C1 (amended): the first inbound message is the acknowledgment.  When the
\* server sends a well-formed acknowledgment and then exactly one
\* full-response frame with the last-package flag and the hello-world
\* payload, keeps the socket open, and the call is not cancelled, the call
\* returns "hello world"; a call that got that frame alone and returns,
\* returns the empty string.
C1_AckThenSingleReply ==
    /\ ( /\ pc = "done"
         /\ Len(srvLog) = 2
         /\ WellFormed(srvLog[1])
         /\ srvLog[2] = HelloFinal
         /\ transport = "open"
         /\ ~callCancelled )
       => (Returned /\ full_text = HelloWorld)
    /\ (Returned /\ srvLog = << HelloFinal >>) => full_text = JStr("")

C1_Witness ==
    /\ Returned
    /\ srvLog = << AckFrame, HelloFinal >>
    /\ transport = "open"
    /\ ~callCancelled
    /\ full_text = HelloWorld

\* C2 (as stated): when the server sends the config acknowledgment and then
\* closes the socket without another frame, the call returns the empty
\* string and does not raise, whatever the interleaving of sender and
\* receiver.
C2_EarlyCloseReturnsEmpty ==
    ( /\ pc = "done"
      /\ srvLog = << AckFrame >>
      /\ transport = "closed"
      /\ ~callCancelled )
    => (Returned /\ full_text = JStr(""))

\* C3 (as stated): the call never finishes while the sender task is still
\* running.
C3_NoDanglingSender ==
    pc = "done" => sender \in Terminated \cup {"none"}

\* C4: in every terminal state of the call (returned, raised, cancelled) the
\* connection and the session are closed or were never opened.
C4_ConnectionClosedOnExit ==
    pc = "done" => (conn # "open" /\ session # "open")

C4_Witness ==
    /\ pc = "done"
    /\ exc \in {"CancelledError", "TypeError", "DecodeError", "SendError"}
    /\ conn = "closed"
    /\ Len(sent) >= 1

\* C5 (as stated): the final audio frame carries the last-package and
\* sequence flags and the negation of the sequence value of the frame sent
\* before it.
C5_FinalReusesLastSent ==
    \A k \in 1..Len(sent) :
        (IsAudioFrame(sent[k]) /\ IsLastFrame(sent[k]))
        => /\ FrameFlags(sent[k]) = NEG_WITH_SEQUENCE
           /\ k >= 2
           /\ sent[k].seq = 0 - sent[k - 1].seq

\* C5 (amended): the final audio frame carries the last-package and
\* sequence flags and the negation of the NEXT sequence value: one more than
\* the value carried by the frame sent before it.
C5_FinalNegatesNext ==
    \A k \in 1..Len(sent) :
        (IsAudioFrame(sent[k]) /\ IsLastFrame(sent[k]))
        => /\ FrameFlags(sent[k]) = NEG_WITH_SEQUENCE
           /\ k >= 2
           /\ ~IsLastFrame(sent[k - 1])
           /\ sent[k].seq = 0 - (sent[k - 1].seq + 1)

C5_Witness ==
    /\ Len(sent) >= 3
    /\ IsAudioFrame(sent[Len(sent)])
    /\ IsLastFrame(sent[Len(sent)])
    /\ IsAudioFrame(sent[Len(sent) - 1])

AudioSent == SelectSeq(sent, IsAudioFrame)
Abs(x) == IF x < 0 THEN 0 - x ELSE x

\* C6: the k-th audio frame sent carries the k-th segment of the split, no
\* segment is sent twice or skipped, and the sequence values of the audio
\* frames (the sign of the final one aside) are strictly ascending.
C6_SegmentOrder ==
    LET audio == AudioSent
        segs == split_audio(content, segment_size)
    IN  /\ Len(audio) <= Len(segs)
        /\ \A k \in 1..Len(audio) : audio[k].payload = gzip_compress(segs[k])
        /\ \A k \in 1..(Len(audio) - 1) : Abs(audio[k].seq) < Abs(audio[k + 1].seq)
        /\ \A j, k \in 1..Len(audio) : j # k => audio[j].payload # audio[k].payload

C6_Witness ==
    /\ Len(AudioSent) >= 3
    /\ IsLastFrame(AudioSent[Len(AudioSent)])
    /\ sender = "done"

\* C7: the config request is the first frame and carries sequence 1; every
\* later non-final frame carries the previous frame's sequence plus 1; the
\* counter is 1 when execute has started and never decreases.
C7_Frames ==
    /\ Len(sent) >= 1 =>
          /\ FrameType(sent[1]) = CLIENT_FULL_REQUEST
          /\ sent[1].seq = 1
    /\ \A k \in 2..Len(sent) :
          ~IsLastFrame(sent[k]) => sent[k].seq = sent[k - 1].seq + 1

C7_SequenceCounter ==
    /\ [](C7_Frames)
    /\ [][ /\ seq' >= seq
           /\ (pc = "execute" /\ pc' # "execute") => seq' = 1 ]_vars

C7_Witness ==
    /\ Len(sent) >= 3
    /\ ~IsLastFrame(sent[2])
    /\ ~IsLastFrame(sent[3])
    /\ sent[3].seq = 3
    /\ seq = 4

\* C8: the responses yielded are exactly the decoded binary frames received
\* after the acknowledgment, in arrival order; nothing is received after a
\* frame whose response has isLastPackage or a non-zero code, and the loop
\* is not running once such a response has been yielded.
Decoded(i) == srvLog[i].type = "BINARY" /\ ~parse_response(srvLog[i].data).fault
EndsStream(r) == r.is_last_package \/ r.code # 0
TerminalAt(i) == Decoded(i) /\ EndsStream(parse_response(srvLog[i].data))

RECURSIVE DecodedResponses(_, _)
DecodedResponses(i, n) ==
    IF i > n THEN << >>
    ELSE (IF Decoded(i) THEN << parse_response(srvLog[i].data) >> ELSE << >>)
         \o DecodedResponses(i + 1, n)

C8_ReceiverOrder ==
    /\ yielded = DecodedResponses(2, consumed)
    /\ \A j \in 2..(consumed - 1) : ~TerminalAt(j)
    /\ pc = "recv" => \A j \in 2..consumed : ~TerminalAt(j)
    /\ \A k \in 1..(Len(yielded) - 1) : ~EndsStream(yielded[k])

C8_Witness ==
    /\ Len(yielded) = 2
    /\ ~EndsStream(yielded[1])
    /\ yielded[2].code # 0
    /\ pc = "done"

\* C9: an audio frame is sent only after the config request was sent and the
\* first receive returned; the first inbound message is never yielded and
\* the transcript is aggregated from the yielded responses alone.
RECURSIVE AggregateAll(_, _, _)
AggregateAll(text, rs, i) ==
    IF i > Len(rs) THEN text
    ELSE AggregateAll(Aggregate(text, rs[i].payload_msg).full_text, rs, i + 1)

C9_AckBeforeAudio ==
    /\ \A k \in 1..Len(sent) :
          IsAudioFrame(sent[k])
          => /\ k >= 2
             /\ FrameType(sent[1]) = CLIENT_FULL_REQUEST
             /\ pc \notin {"aenter", "execute", "connect", "config", "ack"}
             /\ (consumed >= 1 \/ transport # "open")
    /\ Len(yielded) <= (IF consumed >= 1 THEN consumed - 1 ELSE 0)
    /\ full_text = AggregateAll(JStr(""), yielded, 1)

C9_Witness ==
    /\ consumed = 1
    /\ srvLog[1] = HelloFinal
    /\ Len(AudioSent) >= 1
    /\ yielded = << >>
    /\ full_text = JStr("")

\* C10 (as stated): when the stream ends on a response with a non-zero code
\* the call raises instead of returning a transcript.
C10_ErrorCodeRaises ==
    ( /\ pc = "done"
      /\ Len(yielded) >= 1
      /\ yielded[Len(yielded)].code # 0 )
    => exc # "none"

\* C11: a failed transcoder run ends the call with a RuntimeError that
\* carries the exit code and the diagnostic text; no connection was opened
\* and no frame was sent.
C11_TranscodeFailureAborts ==
    /\ excMsg # NoMsg =>
          /\ exc = "RuntimeError"
          /\ pc \in {"aexit", "done"}
          /\ excMsg.returncode # 0
          /\ excMsg.stderr_msg \in {"no such codec", "No error message"}
          /\ conn = "none"
          /\ sent = << >>
          /\ srvLog = << >>
          /\ sender = "none"
    /\ exc = "RuntimeError" => excMsg # NoMsg

C11_Witness ==
    /\ Raised
    /\ exc = "RuntimeError"
    /\ excMsg = [returncode |-> 1, stderr_msg |-> "no such codec"]
    /\ conn = "none"
    /\ sent = << >>

\* C12: the step of the receive loop that takes a frame whose body fails to
\* decompress or to parse yields a response without payload that keeps the
\* frame's last-package flag, sequence and code, leaves the transcript as it
\* was, raises nothing, and leaves the loop only if the frame is terminal.
GarbledMsg(m) ==
    m.type = "BINARY" /\ ~m.data.trunc /\ m.data.body.k \in {"badgzip", "badjson"}

C12_GarbledFrameNotFatal ==
    [][ ( /\ pc = "recv"
          /\ consumed < Len(srvLog)
          /\ consumed' = consumed + 1
          /\ GarbledMsg(srvLog[consumed + 1]) )
        => LET f == srvLog[consumed + 1].data
               flags == f.header[2] % 16
               last == (flags \div 2) % 2 = 1
               code == IF f.header[2] \div 16 = SERVER_ERROR_RESPONSE THEN f.code ELSE 0
           IN  /\ yielded' = Append(yielded,
                    [code |-> code, event |-> 0, is_last_package |-> last,
                     payload_sequence |-> IF flags % 2 = 1 THEN f.seq ELSE 0,
                     payload_msg |-> JNone, fault |-> FALSE])
               /\ full_text' = full_text
               /\ exc' = exc
               /\ pc' = IF last \/ code # 0 THEN "join" ELSE "recv" ]_vars

C12_Witness ==
    /\ Returned
    /\ consumed = 3
    /\ srvLog[2] = GarbledPartial
    /\ srvLog[3] = HelloFinal
    /\ Len(yielded) = 2
    /\ yielded[1].payload_msg = JNone
    /\ full_text = HelloWorld

\* ============================================ functions studied on their own
\* the session stands still while one function is applied to fn_in
IdleSession ==
    /\ pc = "aenter"
    /\ exc = "none"
    /\ seq = 1
    /\ conn = "none"
    /\ session = "none"
    /\ content = << >>
    /\ segment_size = 0
    /\ transport = "open"
    /\ srvLog = << >>
    /\ consumed = 0
    /\ sent = << >>
    /\ sender = "none"
    /\ idx = 0
    /\ cancelReq = FALSE
    /\ yielded = << >>
    /\ full_text = JStr("")
    /\ abandoned = FALSE
    /\ callCancelled = FALSE
    /\ excMsg = NoMsg

\* ------------------------------------------------------ split_audio alone
SplitInputs ==
    { [data |-> Bytes(n), segment_size |-> k] : n \in 0..MaxData, k \in (0 - 1)..MaxSplit }
    \cup { [data |-> Bytes(20000), segment_size |-> 6400] }

InitSplit ==
    /\ IdleSession
    /\ fn_in \in SplitInputs
    /\ fn_out = Pending

SplitAudio ==
    /\ ~fn_out.done
    /\ fn_out' = Result(split_audio(fn_in.data, fn_in.segment_size))
    /\ UNCHANGED << svars, fn_in >>

NextSplit == SplitAudio

SpecSplit == InitSplit /\ [][NextSplit]_vars

RECURSIVE Concat(_, _)
Concat(segs, i) == IF i > Len(segs) THEN << >> ELSE segs[i] \o Concat(segs, i + 1)

CeilDiv(a, b) == (a + b - 1) \div b

\* C15: with segment_size > 0 the slices concatenate to the input, every
\* slice but the last has segment_size bytes, the last holds between 1 and
\* segment_size bytes, and there are ceil(len(data) / segment_size) slices.
C15_SplitCovers ==
    (fn_out.done /\ fn_in.segment_size > 0)
    => LET segs == fn_out.val
           n == Len(segs)
       IN  /\ Concat(segs, 1) = fn_in.data
           /\ \A k \in 1..(n - 1) : Len(segs[k]) = fn_in.segment_size
           /\ n > 0 => (Len(segs[n]) >= 1 /\ Len(segs[n]) <= fn_in.segment_size)
           /\ n = CeilDiv(Len(fn_in.data), fn_in.segment_size)

C15_Witness ==
    /\ fn_out.done
    /\ Len(fn_in.data) = 11
    /\ fn_in.segment_size = 4
    /\ Len(fn_out.val) = 3
    /\ Len(fn_out.val[3]) = 3

SegLengths(segs) == [k \in 1..Len(segs) |-> Len(segs[k])]

\* C16 (as stated): a 20000-byte buffer split with segment size 6400 gives
\* 4 chunks of lengths 6400, 6400, 6400, 640.
C16_Lengths640 ==
    (fn_out.done /\ Len(fn_in.data) = 20000 /\ fn_in.segment_size = 6400)
    => SegLengths(fn_out.val) = << 6400, 6400, 6400, 640 >>

\* C16 (amended): a 20000-byte buffer split with segment size 6400 gives
\* 4 ordered chunks of lengths 6400, 6400, 6400, 800.
C16_Lengths800 ==
    (fn_out.done /\ Len(fn_in.data) = 20000 /\ fn_in.segment_size = 6400)
    => /\ SegLengths(fn_out.val) = << 6400, 6400, 6400, 800 >>
       /\ Concat(fn_out.val, 1) = fn_in.data

C16_Witness ==
    /\ fn_out.done
    /\ Len(fn_in.data) = 20000
    /\ fn_in.segment_size = 6400
    /\ Len(fn_out.val) = 4

\* C17: with a non-positive segment size the sender sends no audio frame and
\* no last-package marker and does not fail: the only frame ever sent is the
\* config request, and the call goes on to the receive loop.
C17_NoSegmentsNothingSent ==
    segment_size <= 0
    => /\ AudioSent = << >>
       /\ Len(sent) <= 1
       /\ \A k \in 1..Len(sent) : ~IsLastFrame(sent[k])
       /\ sender # "failed"
       /\ (sender # "none" => pc \in {"recv", "join", "aexit", "done"})
       /\ (exc = "SendError" => sender = "none")

C17_Witness ==
    /\ segment_size = 0
    /\ Len(content) > 0
    /\ pc = "recv"
    /\ sender = "done"
    /\ Len(sent) = 1
    /\ exc = "none"

\* ------------------------------------------------------- the codec on bytes
\* Frames as byte strings: sequences of numbers 0..255.

\* b[k:] and b[:k] of Python
PyFrom(b, k) == IF k >= Len(b) THEN << >> ELSE SubSeq(b, k + 1, Len(b))
PyTo(b, k) == IF k >= Len(b) THEN b ELSE SubSeq(b, 1, k)

\* struct.pack('>i', x) and struct.unpack('>i', b) for x in -(2^31-1)..2^31-1
Digits256(y) == << y \div 16777216, (y \div 65536) % 256, (y \div 256) % 256, y % 256 >>
pack_i(x) ==
    IF x >= 0 THEN Digits256(x)
    ELSE LET d == Digits256((x + 2147483647) + 1)
         IN  << d[1] + 128, d[2], d[3], d[4] >>
unpack_i(b) ==
    IF b[1] < 128 THEN b[1] * 16777216 + b[2] * 65536 + b[3] * 256 + b[4]
    ELSE (((b[1] - 128) * 16777216 + b[2] * 65536 + b[3] * 256 + b[4]) - 2147483647) - 1

\* struct.pack('>I', n) for the lengths of the model
pack_I(n) == Digits256(n)

\* gzip on bytes, reduced to what the codec relies on: the compressed form
\* starts with the magic bytes 1f 8b and determines the data, and bytes
\* that do not start with the magic are rejected
gzip_bytes(data) == << 31, 139 >> \o data
gzip_decompress(b) ==
    IF Len(b) >= 2 /\ b[1] = 31 /\ b[2] = 139
    THEN [ok |-> TRUE, data |-> SubSeq(b, 3, Len(b))]
    ELSE [ok |-> FALSE, data |-> << >>]

\* json.loads(payload.decode('utf-8')), reduced to the JSON texts of the
\* model: a decimal number without sign; anything else is rejected
IsDigits(b) == Len(b) >= 1 /\ (\A i \in 1..Len(b) : b[i] \in 48..57) /\ (Len(b) > 1 => b[1] # 48)
RECURSIVE DecimalValue(_, _)
DecimalValue(b, n) == IF n = 0 THEN 0 ELSE 10 * DecimalValue(b, n - 1) + (b[n] - 48)
json_loads(b) ==
    IF IsDigits(b) THEN [ok |-> TRUE, val |-> JInt(DecimalValue(b, Len(b)))]
    ELSE [ok |-> FALSE, val |-> JNone]

\* the header fields as parse_response reads them
decode_header(msg) ==
    [header_size |-> BitAnd(msg[1], 15),
     message_type |-> msg[2] \div 16,
     message_type_specific_flags |-> BitAnd(msg[2], 15),
     serialization_method |-> msg[3] \div 16,
     message_compression |-> BitAnd(msg[3], 15)]

ByteResponse ==
    [fault |-> FALSE, code |-> 0, event |-> 0, is_last_package |-> FALSE,
     payload_sequence |-> 0, payload_msg |-> JNone, payload |-> << >>]

\* parse_response on a byte string.  fault: IndexError on a header byte or
\* struct.error on a field cut short.  payload: the local variable payload
\* when the function returns.
parse_bytes(msg) ==
    IF Len(msg) < 3 THEN [ByteResponse EXCEPT !.fault = TRUE]
    ELSE
    LET h == decode_header(msg)
        flags == h.message_type_specific_flags
        p0 == PyFrom(msg, h.header_size * 4)
        hasSeq == BitAnd(flags, 1) # 0
        f1 == hasSeq /\ Len(p0) < 4
        p1 == IF hasSeq THEN PyFrom(p0, 4) ELSE p0
        hasEvent == BitAnd(flags, 4) # 0
        f2 == hasEvent /\ Len(p1) < 4
        p2 == IF hasEvent THEN PyFrom(p1, 4) ELSE p1
        isFull == h.message_type = SERVER_FULL_RESPONSE
        isError == h.message_type = SERVER_ERROR_RESPONSE
        f3 == (isFull /\ Len(p2) < 4) \/ (isError /\ Len(p2) < 8)
        p3 == IF isFull THEN PyFrom(p2, 4) ELSE IF isError THEN PyFrom(p2, 8) ELSE p2
        gz == gzip_decompress(p3)
        unzipFails == h.message_compression = GZIP /\ ~gz.ok
        p4 == IF h.message_compression = GZIP /\ gz.ok THEN gz.data ELSE p3
        js == json_loads(p4)
    IN  IF f1 \/ f2 \/ f3 THEN [ByteResponse EXCEPT !.fault = TRUE]
        ELSE [ByteResponse EXCEPT
            !.payload_sequence = IF hasSeq THEN unpack_i(PyTo(p0, 4)) ELSE 0,
            !.is_last_package = BitAnd(flags, 2) # 0,
            !.event = IF hasEvent THEN unpack_i(PyTo(p1, 4)) ELSE 0,
            !.code = IF isError THEN unpack_i(PyTo(p2, 4)) ELSE 0,
            !.payload = p4,
            !.payload_msg =
                IF p3 # << >> /\ ~unzipFails
                   /\ h.serialization_method = JSON /\ js.ok
                THEN js.val ELSE JNone]

\* ------------------------------------------------------- the header alone
InitHeader ==
    /\ IdleSession
    /\ fn_in \in [message_type : 0..15, message_type_specific_flags : 0..15,
                  serialization_type : 0..15, compression_type : 0..15,
                  reserved_data : {0}]
    /\ fn_out = Pending

EncodeHeader ==
    /\ ~fn_out.done
    /\ fn_out' = Result(to_bytes(fn_in))
    /\ UNCHANGED << svars, fn_in >>

NextHeader == EncodeHeader

SpecHeader == InitHeader /\ [][NextHeader]_vars

\* C18: the encoded header has four bytes, byte0 = (version << 4) | 1 and
\* byte3 = 0, and the decoder's nibble extraction gives back the message
\* type, flags, serialization and compression and a header length of 4.
C18_HeaderRoundTrip ==
    fn_out.done
    => LET b == fn_out.val
           h == decode_header(b)
       IN  /\ Len(b) = 4
           /\ b[1] = 17
           /\ b[4] = 0
           /\ h.header_size * 4 = 4
           /\ h.message_type = fn_in.message_type
           /\ h.message_type_specific_flags = fn_in.message_type_specific_flags
           /\ h.serialization_method = fn_in.serialization_type
           /\ h.message_compression = fn_in.compression_type

C18_Witness ==
    /\ fn_out.done
    /\ fn_in.message_type = SERVER_ERROR_RESPONSE
    /\ fn_in.message_type_specific_flags = NEG_WITH_SEQUENCE
    /\ fn_in.serialization_type = JSON
    /\ fn_in.compression_type = GZIP
    /\ fn_out.val = << 17, 243, 17, 0 >>

\* ------------------------------------------------------ the decoder alone
\* A frame as a server lays it out for parse_response: header, then the
\* fields the flags and the message type announce, then the payload.
ServerBytes(mt, flags, ser, comp, s, ev, c, payload) ==
    << 17, mt * 16 + flags, ser * 16 + comp, 0 >>
    \o (IF BitAnd(flags, 1) # 0 THEN pack_i(s) ELSE << >>)
    \o (IF BitAnd(flags, 4) # 0 THEN pack_i(ev) ELSE << >>)
    \o (IF mt = SERVER_ERROR_RESPONSE THEN pack_i(c) ELSE << >>)
    \o (IF mt \in {SERVER_FULL_RESPONSE, SERVER_ERROR_RESPONSE}
        THEN pack_I(Len(payload)) ELSE << >>)
    \o payload

WholeFrames ==
    { ServerBytes(SERVER_FULL_RESPONSE, POS_SEQUENCE, JSON, GZIP, 1, 0, 0,
                  gzip_bytes(<< 55 >>)),
      ServerBytes(SERVER_FULL_RESPONSE, 7, JSON, GZIP, -2, 150, 0,
                  gzip_bytes(<< 52, 50 >>)),
      ServerBytes(SERVER_ERROR_RESPONSE, NO_SEQUENCE, JSON, 0, 0, 0, 45,
                  << 52, 53 >>),
      ServerBytes(SERVER_FULL_RESPONSE, NO_SEQUENCE, JSON, GZIP, 0, 0, 0, << >>) }

Prefixes(b) == { SubSeq(b, 1, n) : n \in 0..Len(b) }

ShortBytes ==
    UNION { [1..n -> {0, 17, 145, 255}] : n \in 0..MaxShort }

ParseInputs == (UNION { Prefixes(b) : b \in WholeFrames }) \cup ShortBytes

InitParse ==
    /\ IdleSession
    /\ fn_in \in ParseInputs
    /\ fn_out = Pending

ParseResponse ==
    /\ ~fn_out.done
    /\ fn_out' = Result(parse_bytes(fn_in))
    /\ UNCHANGED << svars, fn_in >>

NextParse == ParseResponse

SpecParse == InitParse /\ [][NextParse]_vars

\* C13: parse_response returns a response for every byte string, the empty
\* one and the truncated ones included; no fault leaves the decoder.
C13_NoFaultEscapes == fn_out.done => ~fn_out.val.fault

\* ----------------------------------------- audio request, encoded and decoded
\* the bytes of an outbound frame: header, struct.pack('>i', seq),
\* struct.pack('>I', len(compressed)), compressed
wire_NoSeq(req) ==
    req.header \o pack_I(Len(gzip_bytes(req.payload.gz))) \o gzip_bytes(req.payload.gz)

wire(req) ==
    req.header \o pack_i(req.seq)
    \o pack_I(Len(gzip_bytes(req.payload.gz))) \o gzip_bytes(req.payload.gz)

\* sequence integers struct.pack('>i') accepts, the extremes included, and
\* payloads: empty, plain, JSON text, and bytes that look compressed
RoundTripInputs ==
    [seq : {-2147483647, -300, -1, 0, 1, 2, 300, 65536, 2147483647},
     segment : {<< >>, << 7 >>, << 49, 50 >>, << 31, 139, 5 >>, << 0, 255, 0, 255 >>, << 1, 2, 3, 4, 5 >>},
     is_last : BOOLEAN]

InitRoundTrip ==
    /\ IdleSession
    /\ fn_in \in RoundTripInputs
    /\ fn_out = Pending

EncodeDecode ==
    /\ ~fn_out.done
    /\ LET frame == wire(new_audio_only_request(fn_in.seq, fn_in.segment, fn_in.is_last))
       IN  fn_out' = Result([frame |-> frame, response |-> parse_bytes(frame)])
    /\ UNCHANGED << svars, fn_in >>

NextRoundTrip == EncodeDecode

SpecRoundTrip == InitRoundTrip /\ [][NextRoundTrip]_vars

\* C19 as stated: decoding the encoded audio request gives back the
\* sequence value and the payload bytes handed to the encoder.
C19_RoundTrip ==
    fn_out.done
    => /\ ~fn_out.val.response.fault
       /\ fn_out.val.response.payload_sequence = fn_in.seq
       /\ fn_out.val.response.payload = fn_in.segment

\* C19 as the code has it: the decoder gives back the sequence field as
\* written (negated for the final chunk) and the last-package flag; it does
\* not consume the length field of an audio-only frame, so decompression
\* fails, no payload message is produced and what is left in hand is the
\* length field followed by the compressed bytes.
C19_SequenceFieldOnly ==
    fn_out.done
    => LET r == fn_out.val.response
           compressed == gzip_bytes(fn_in.segment)
       IN  /\ ~r.fault
           /\ r.payload_sequence = (IF fn_in.is_last THEN 0 - fn_in.seq ELSE fn_in.seq)
           /\ r.is_last_package = fn_in.is_last
           /\ r.payload_msg = JNone
           /\ r.payload = pack_I(Len(compressed)) \o compressed
           /\ r.payload # fn_in.segment

C19_Witness ==
    /\ fn_out.done
    /\ fn_in.is_last
    /\ fn_in.seq = 2
    /\ fn_in.segment = << 49, 50 >>
    /\ fn_out.val.frame = << 17, 35, 17, 0, 255, 255, 255, 254, 0, 0, 0, 4, 31, 139, 49, 50 >>
    /\ fn_out.val.response.payload_sequence = -2

\* ------------------------------------------------- the aggregation alone
\* the async for loop of recognize_audio over the payloads of the yielded
\* responses, from the i-th on; it ends at the first fault
RECURSIVE AggregateFrom(_, _, _)
AggregateFrom(text, msgs, i) ==
    IF i > Len(msgs) THEN Keep(text)
    ELSE LET agg == Aggregate(text, msgs[i])
         IN  IF agg.fault THEN agg ELSE AggregateFrom(agg.full_text, msgs, i + 1)

\* payloads a response can carry
Payloads ==
    << JNone,
       JDict([result |-> JDict([text |-> JStr("alpha")])]),
       JDict([result |-> JDict([text |-> JStr("beta"),
                                utterances |-> JList(<< JDict([text |-> JStr("gamma")]) >>)])]),
       JDict([result |-> JDict([utterances |-> JList(<< JDict([text |-> JStr("delta")]),
                                                        JDict([text |-> JStr("epsilon")]) >>)])]),
       JDict([result |-> JDict([utterances |-> JList(<< >>)])]),
       JDict([result |-> JList(<< JDict([text |-> JStr("one")]), JInt(3), JStr("two") >>)]),
       JDict([result |-> JList(<< JStr("three"), JDict([text |-> JStr("four")]),
                                  JDict([other |-> JStr("x")]) >>)]),
       JDict([result |-> JList(<< JInt(1) >>)]),
       JDict([code |-> JInt(0)]),
       JDict([result |-> JStr("plain")]),
       JDict([result |-> JDict([utterances |-> JList(<< JInt(5) >>)])]),
       JDict([result |-> JDict([utterances |-> JList(<< JDict([start |-> JInt(0)]) >>)])]) >>

\* a run hands the loop a sequence of payloads, named by their index
InitAgg ==
    /\ IdleSession
    /\ fn_in \in UNION { [1..n -> 1..Len(Payloads)] : n \in 0..MaxResp }
    /\ fn_out = Pending

AggregateResponses ==
    /\ ~fn_out.done
    /\ fn_out' = Result(AggregateFrom(JStr(""), [i \in 1..Len(fn_in) |-> Payloads[fn_in[i]]], 1))
    /\ UNCHANGED << svars, fn_in >>

NextAgg == AggregateResponses

SpecAgg == InitAgg /\ [][NextAgg]_vars

\* what the claim calls the text a response yields
ItemHasText(x) == (x.t = "dict" /\ "text" \in DOMAIN x.v) \/ x.t = "str"
ItemText(x) == IF x.t = "dict" THEN x.v["text"] ELSE x
FirstUtteranceHasText(r) ==
    /\ "utterances" \in DOMAIN r.v
    /\ r.v["utterances"].t = "list"
    /\ Len(r.v["utterances"].v) > 0
    /\ r.v["utterances"].v[1].t = "dict"
    /\ "text" \in DOMAIN r.v["utterances"].v[1].v
YieldsText(p) ==
    /\ p.t = "dict"
    /\ "result" \in DOMAIN p.v
    /\ LET r == p.v["result"]
       IN  CASE r.t = "list" -> \E i \in 1..Len(r.v) : ItemHasText(r.v[i])
             [] r.t = "dict" -> "text" \in DOMAIN r.v \/ FirstUtteranceHasText(r)
             [] OTHER -> FALSE
TextOf(p) ==
    LET r == p.v["result"]
    IN  IF r.t = "list"
        THEN LET last == CHOOSE i \in 1..Len(r.v) :
                            /\ ItemHasText(r.v[i])
                            /\ \A j \in (i + 1)..Len(r.v) : ~ItemHasText(r.v[j])
             IN  ItemText(r.v[last])
        ELSE IF "text" \in DOMAIN r.v THEN r.v["text"]
        ELSE r.v["utterances"].v[1].v["text"]

\* C14: when the loop runs to its end, the transcript is the text of the
\* last response, in arrival order, that yields a text, and the empty string
\* when none does; nothing is concatenated and responses without a payload
\* or a result field change nothing.
C14_LastWriterWins ==
    (fn_out.done /\ ~fn_out.val.fault)
    => LET yielding == { i \in 1..Len(fn_in) : YieldsText(Payloads[fn_in[i]]) }
           text == fn_out.val.full_text
       IN  /\ text.t = "str"
           /\ IF yielding = {} THEN text.v = ""
              ELSE LET last == CHOOSE i \in yielding : \A j \in yielding : j <= i
                   IN  text.v = TextOf(Payloads[fn_in[last]]).v

C14_Witness ==
    /\ fn_out.done
    /\ ~fn_out.val.fault
    /\ fn_in = << 3, 6 >>
    /\ fn_out.val.full_text.v = "two"

\* ------------------------------------------------- read_audio_data alone
InitAudio ==
    /\ IdleSession
    /\ fn_in \in [file : AudioFiles, run : TranscoderRuns]
    /\ fn_out = Pending

ReadAudioData ==
    /\ ~fn_out.done
    /\ fn_out' = Result(read_audio_data(fn_in.file, fn_in.run))
    /\ UNCHANGED << svars, fn_in >>

NextAudio == ReadAudioData

SpecAudio == InitAudio /\ [][NextAudio]_vars

\* where the k-th subchunk of a file starts
RECURSIVE ChunkOffset(_, _)
ChunkOffset(file, k) ==
    IF k = 1 THEN 36 ELSE ChunkOffset(file, k - 1) + 8 + file.subchunks[k - 1].size

\* the info of a file can be parsed: its first data subchunk starts more
\* than eight bytes before the end of the file
InfoParses(file) ==
    \E k \in 1..Len(file.subchunks) :
        /\ file.subchunks[k].id = "data"
        /\ \A j \in 1..(k - 1) : file.subchunks[j].id # "data"
        /\ ChunkOffset(file, k) < file.length - 8

AlreadyCanonical(file) ==
    /\ file.length >= 44
    /\ file.riff
    /\ file.wave
    /\ InfoParses(file)
    /\ file.num_channels = 1
    /\ file.bits_per_sample \div 8 = 2
    /\ file.sample_rate = 16000

\* C20: read_audio_data returns the file's bytes as they are, the transcoder
\* not run, exactly when the file is a valid WAV whose info parses to one
\* channel, two bytes per sample and 16000 Hz; in every other case the
\* transcoder is run and what it wrote is returned.
C20_ConvertUnlessCanonical ==
    fn_out.done
    => LET r == fn_out.val
       IN  /\ ~r.invoked <=> AlreadyCanonical(fn_in.file)
           /\ ~r.invoked => (~r.fault /\ r.content = << "file", fn_in.file >>)
           /\ (r.invoked /\ fn_in.run.returncode = 0)
              => (~r.fault /\ r.content = fn_in.run.stdout)

C20_Witness ==
    /\ fn_out.done
    /\ fn_in.file.riff /\ fn_in.file.wave
    /\ fn_in.file.length = 44
    /\ fn_in.file.num_channels = 1
    /\ fn_in.file.bits_per_sample = 16
    /\ fn_in.file.sample_rate = 16000
    /\ fn_in.run.returncode = 0
    /\ fn_out.val.invoked
    /\ fn_out.val.content = << "pcm" >>

\* ------------------------------------------------- claims on the session
\* C21: at most one audio frame carries the last-package flag; it carries
\* the last segment of the split and nothing is sent after it; a sender
\* cancelled before the last segment has sent no such frame.
LastFrames == { k \in 1..Len(sent) : IsAudioFrame(sent[k]) /\ IsLastFrame(sent[k]) }

C21_OneFinalFrame ==
    LET segments == split_audio(content, segment_size)
    IN  /\ Cardinality(LastFrames) <= 1
        /\ \A k \in LastFrames :
              /\ k = Len(sent)
              /\ Len(segments) >= 1
              /\ idx = Len(segments)
              /\ sent[k].payload = gzip_compress(segments[Len(segments)])
        /\ (sender = "cancelled" /\ idx < Len(segments)) => LastFrames = {}

C21_Witness ==
    /\ LastFrames # {}
    /\ Len(sent) >= 3
    /\ IsAudioFrame(sent[2]) /\ ~IsLastFrame(sent[2])
    /\ sender = "cancelled"

\* C22: whatever the first inbound message holds (a success response, an
\* error response with a non-zero code, a response with the last-package
\* flag, a message that is not binary), once conn.receive() has handed it
\* over send_full_client_request returns normally, the sequence counter is
\* 2 and the audio stream is started.
AckKinds ==
    \/ NextMsg.type # "BINARY"
    \/ /\ NextMsg.type = "BINARY"
       /\ NextMsg.data.trunc = FALSE

C22_AckContentIgnored ==
    [][ (pc = "ack" /\ pc' # "ack" /\ callCancelled' = callCancelled /\ AckKinds)
        => /\ pc' = "recv"
           /\ exc' = "none"
           /\ seq' = 2
           /\ sender' = "created"
           /\ yielded' = << >>
           /\ full_text' = JStr("") ]_vars

C22_Witness ==
    /\ Len(srvLog) >= 1
    /\ srvLog[1].type = "BINARY"
    /\ srvLog[1].data.code = 45
    /\ consumed >= 1
    /\ \E k \in 1..Len(sent) : IsAudioFrame(sent[k])

\* C23: a send that fails inside the sender task leaves the receive loop
\* running; the failure surfaces only at the join that follows the end of
\* the loop, and the call then raises it instead of returning, whatever
\* transcript had been aggregated.
C23_SendFailureSurfacesAtJoin ==
    [][ /\ (sender # "failed" /\ sender' = "failed")
           => /\ pc = "recv" \/ abandoned
              /\ UNCHANGED << pc, exc, yielded, full_text, consumed >>
        /\ (sender = "failed" /\ exc # "SendError" /\ exc' = "SendError")
           => (pc = "join" /\ pc' = "aexit")
        /\ (pc = "join" /\ pc' = "aexit" /\ sender = "failed")
           => exc' = "SendError"
        /\ (pc' = "done" /\ sender' = "failed" /\ ~abandoned')
           => (exc' = "SendError" /\ ~Returned') ]_vars

C23_Witness ==
    /\ pc = "done"
    /\ sender = "failed"
    /\ exc = "SendError"
    /\ full_text = HelloWorld
    /\ Len(yielded) >= 1

\* --------------------------------------------------- the session, scheduled
\* The event loop runs every coroutine that is ready, so each step of the
\* main coroutine and of the sender task is taken once it stays enabled.
\* The server is assumed to end the stream: it closes the socket, or sends
\* a frame that ends the receive loop, as long as the connection is open.
ServerEnds ==
    \/ ServerClose
    \/ /\ ServerSend
       /\ LET m == srvLog'[Len(srvLog')]
          IN  m.type = "BINARY" /\ ~m.data.trunc
              /\ (parse_response(m.data).is_last_package \/ parse_response(m.data).code # 0)

Fairness ==
    /\ WF_vars(AEnter)
    /\ WF_vars(Execute)
    /\ WF_vars(CreateConnection)
    /\ WF_vars(SendFullClientRequest)
    /\ WF_vars(ReceiveAck)
    /\ WF_vars(RecvMessages)
    /\ WF_vars(Join)
    /\ WF_vars(AExit)
    /\ WF_vars(SenderStart)
    /\ WF_vars(SenderResume)
    /\ WF_vars(SenderCancelled)
    /\ WF_vars(ServerEnds)

\* one file of two segments
InitLive ==
    /\ Init
    /\ content = Bytes(2)
    /\ segment_size = 1

SpecLive == InitLive /\ [][Next]_vars /\ Fairness

\* every audio frame, the final one included, has been sent
AllAudioSent ==
    /\ sender = "done"
    /\ idx = Len(split_audio(content, segment_size))
    /\ \E k \in 1..Len(sent) : IsAudioFrame(sent[k]) /\ IsLastFrame(sent[k])

\* C24: once the receive loop runs, the call returns or raises when the
\* server ends the stream; while the server sends nothing and does not
\* close, no step of the client leaves the receive loop, not even after the
\* final audio frame: nothing in the session times out.
C24_EndsOnlyWithServer ==
    /\ (pc = "recv") ~> (pc = "done")
    /\ [][ (pc = "recv" /\ ~Readable /\ callCancelled' = callCancelled)
           => (pc' = "recv" /\ exc' = "none") ]_vars

C24_Witness ==
    /\ pc = "recv"
    /\ AllAudioSent
    /\ ~Readable
    /\ ~callCancelled

====
